---- MODULE Spec2Model ----
(***************************************************************************)
(* The chunked transfer engine of bot.py: file_handler, upload_to_space    *)
(* and split_and_upload, run as asyncio coroutines on one event loop.      *)
(*                                                                         *)
(* Sizes are counted in blocks of Block bytes (10 MiB): every size         *)
(* constant of the program is a whole number of blocks.  A file's content  *)
(* is the sequence of its blocks.  Between two awaits a coroutine runs     *)
(* without interruption: `running` names the handler that holds the event  *)
(* loop, 0 when every handler is suspended at an await.                    *)
(***************************************************************************)
EXTENDS Integers, Sequences, FiniteSets, TLC

VARIABLES
    active_uploads,  \* bot.py:51   user_id -> upload_id ("" when absent)
    user_stats,      \* bot.py:52   user_id -> [uploads, total_size]
    success_rate,    \* bot.py:49   bot_status["success_rate"]: size key -> count
    tmp,             \* the local /tmp directory: path -> file content
    remote,          \* the Space repository: path_in_repo -> file content
    now,             \* int(datetime.now().timestamp())
    running,         \* the handler holding the event loop, 0 if none
    h,               \* handler invocation -> its locals and position
    cfg              \* the messages the environment may send (fixed by Init)

vars == <<active_uploads, user_stats, success_rate, tmp, remote, now, running, h, cfg>>

-----------------------------------------------------------------------------
(* Bounds of the model *)

MaxHandlers == 2      \* file_handler invocations in the concurrent specification
MaxOwners == 2        \* distinct senders in the concurrent specification
MaxClock == 1         \* seconds the clock may advance
MaxDenseSize == 12    \* every file size up to this one is tried, in blocks

-----------------------------------------------------------------------------
(* Program constants, in blocks *)

Block == 10 * 1024 * 1024

CHUNK_STRATEGIES ==
    [tiny       |-> (10 * 1024 * 1024) \div Block,
     safe       |-> (90 * 1024 * 1024) \div Block,
     balanced   |-> (200 * 1024 * 1024) \div Block,
     aggressive |-> (500 * 1024 * 1024) \div Block]

MAX_FILE_SIZE == (2000 * 1024 * 1024) \div Block

\* float('inf') of get_chunk_strategy's table
Inf == -1

\* a slip: a size equal to a threshold falls into the next range
Less(size, size_range) == size_range = Inf \/ size < size_range

\* file_size <= size_range
Leq(size, size_range) == size_range = Inf \/ size <= size_range

StrategyTable ==
    << <<(100 * 1024 * 1024) \div Block, "tiny">>,
       <<(500 * 1024 * 1024) \div Block, "balanced">>,
       <<(1000 * 1024 * 1024) \div Block, "safe">>,
       <<Inf, "safe">> >>

RECURSIVE ScanTable(_, _)
ScanTable(file_size, i) ==
    IF i > Len(StrategyTable) THEN "safe"
    ELSE IF Leq(file_size, StrategyTable[i][1]) THEN StrategyTable[i][2]
    ELSE ScanTable(file_size, i + 1)

get_chunk_strategy(file_size) == ScanTable(file_size, 1)

\* a slip: integer division where math.ceil was meant
FloorDiv(a, b) == a \div b

\* math.ceil(file_size / chunk_size)
CeilDiv(a, b) == (a + b - 1) \div b

-----------------------------------------------------------------------------
(* Strings and paths *)

RECURSIVE Join(_)
Join(s) == IF s = <<>> THEN "" ELSE Head(s) \o Join(Tail(s))

AlnumChars ==
    {"a", "b", "c", "d", "e", "f", "g", "h", "i", "j", "k", "l", "m",
     "n", "o", "p", "q", "r", "s", "t", "u", "v", "w", "x", "y", "z",
     "0", "1", "2", "3", "4", "5", "6", "7", "8", "9"}

IsSafeChar(c) == c \in AlnumChars \/ c \in {".", "_", "-", " "}

Min(a, b) == IF a <= b THEN a ELSE b

\* ''.join(c for c in original_filename if c.isalnum() or c in '._- ')[:80]
safe_name(chars) ==
    LET kept == SelectSeq(chars, IsSafeChar)
    IN  Join(SubSeq(kept, 1, Min(80, Len(kept))))

\* f"{part_num:03d}"
Pad3(n) ==
    IF n < 10 THEN "00" \o ToString(n)
    ELSE IF n < 100 THEN "0" \o ToString(n)
    ELSE ToString(n)

\* event.file.name or f"file_{int(datetime.now().timestamp())}"
OriginalFilename(chars, ts) ==
    IF chars = <<>> THEN "file_" \o ToString(ts) ELSE Join(chars)

UploadId(user_id, ts) == ToString(user_id) \o "_" \o ToString(ts)

TempPath(upload_id, original_filename) ==
    "/tmp/" \o upload_id \o "_" \o original_filename

\* safe_name of line 481: every character of the default name "file_<digits>"
\* is kept, a given name is filtered
SafeNameOf(chars, original_filename) ==
    IF chars = <<>> THEN original_filename ELSE safe_name(chars)

BaseName(ts, safe) == ToString(ts) \o "_" \o safe

TargetName(base_name, original_filename) == base_name \o "_" \o original_filename

ChunkName(base_name, part_num) == base_name \o ".part" \o Pad3(part_num)

ChunkPath(base_name, part_num) == "/tmp/" \o ChunkName(base_name, part_num)

ManifestName(base_name) == base_name \o ".manifest.json"

ManifestPath(base_name) == "/tmp/" \o ManifestName(base_name)

\* f"{original_size // (1024*1024)}MB"
SizeKey(original_size) ==
    ToString(original_size * (Block \div (1024 * 1024))) \o "MB"

-----------------------------------------------------------------------------
(* Files *)

NoFile == [kind |-> "none", data |-> <<>>, manifest |-> <<>>]

Bytes(data) == [kind |-> "bytes", data |-> data, manifest |-> <<>>]

ManifestFile(m) == [kind |-> "manifest", data |-> <<>>, manifest |-> <<m>>]

Exists(fs, path) == path \in DOMAIN fs

Put(fs, path, file) ==
    [x \in DOMAIN fs \cup {path} |-> IF x = path THEN file ELSE fs[x]]

Remove(fs, path) == [x \in DOMAIN fs \ {path} |-> fs[x]]

\* os.path.getsize
GetSize(fs, path) == Len(fs[path].data)

\* the object handler p is sent: file_size blocks, each its own value
Content(p, file_size) == [i \in 1..file_size |-> 1000 * p + i]

\* a slip: every read starts at the beginning of the file
ReadChunkFromStart(data, pos, chunk_size) ==
    IF pos >= Len(data) THEN <<>> ELSE SubSeq(data, 1, Min(chunk_size, Len(data)))

\* a slip: one byte more than chunk_size is read
ReadChunkOneMore(data, pos, chunk_size) ==
    SubSeq(data, pos + 1, Min(pos + chunk_size + 1, Len(data)))

\* f.read(chunk_size) at offset pos of an open file
ReadChunk(data, pos, chunk_size) ==
    SubSeq(data, pos + 1, Min(pos + chunk_size, Len(data)))

\* calculate_md5: the digest of a file stands for its content
calculate_md5(data) == <<"md5", data>>

-----------------------------------------------------------------------------
(* Backend errors: str(e) as its words *)

ErrorMessages ==
    { <<"403", "Forbidden">>,
      <<"LFS", "limit">>,
      <<"Quota", "exceeded">>,
      <<"Connection", "reset">> }

\* error_msg.lower() on the words of the model
Lower(w) == IF w = "Quota" THEN "quota" ELSE w

\* "403" in error_msg or "LFS" in error_msg or "quota" in error_msg.lower()
IsSpaceLimit(error_msg) ==
    \E i \in 1..Len(error_msg) :
        error_msg[i] = "403" \/ error_msg[i] = "LFS" \/ Lower(error_msg[i]) = "quota"

\* what hf_api.upload_file does: "ok" or the message of the exception it raises
UploadOutcomes == {<<"ok">>} \cup ErrorMessages

-----------------------------------------------------------------------------
(* upload_to_space's attempts list *)

Attempts(strategy) ==
    << [chunk |-> CHUNK_STRATEGIES[strategy], retries |-> 2, name |-> strategy],
       [chunk |-> CHUNK_STRATEGIES["safe"], retries |-> 3, name |-> "safe_fallback"],
       [chunk |-> CHUNK_STRATEGIES["tiny"], retries |-> 3, name |-> "tiny_fallback"] >>

-----------------------------------------------------------------------------
(* State *)

Procs == 1..MaxHandlers

Owners == 1..MaxOwners

\* a handler invocation that has not been called yet
Idle ==
    [pc |-> "idle",
     \* file_handler
     user_id |-> 0, name |-> <<>>, original_filename |-> "", file_size |-> 0,
     upload_id |-> "", status_msg |-> FALSE, has_temp |-> FALSE, temp_path |-> "",
     strategy |-> "", chunk_size |-> 0, needs_split |-> FALSE, base_name |-> "",
     total_parts |-> 0, target_name |-> "",
     \* upload_to_space
     uts_file_size |-> 0, attempts |-> <<>>, att |-> 0, retry |-> 0,
     \* split_and_upload
     caller |-> "", sp_base |-> "", sp_chunk |-> 0, sp_total |-> 0, sp_file_size |-> 0,
     f_data |-> <<>>, f_pos |-> 0, part_num |-> 0, chunk_data |-> <<>>,
     uploaded_parts |-> <<>>, sp_retry |-> 0,
     \* what happened so far (read by the properties only)
     msg |-> "", tried |-> {}, prev_end |-> 0, split_ok |-> FALSE,
     gave_up |-> FALSE, manifest_done |-> FALSE, retried |-> FALSE, runs |-> 0,
     dl_failed |-> FALSE, direct_calls |-> 0, quota_hit |-> FALSE,
     unit_calls |-> 0, run_total |-> 0, run_part_calls |-> 0, run_manifest_calls |-> 0,
     last_ord |-> 0]

\* the sizes around the chunk sizes, the selector's thresholds and the ceiling
BoundarySizes ==
    UNION { {c + 1, 2 * c, 10 * c} :
              c \in {CHUNK_STRATEGIES[n] : n \in {"tiny", "safe", "balanced"}} }
    \cup UNION { {StrategyTable[i][1], StrategyTable[i][1] + 1} : i \in 1..3 }
    \cup {MAX_FILE_SIZE, MAX_FILE_SIZE + 1}

\* one transfer, running alone, its upload calls counted
SoloCfg ==
    [procs |-> {1}, owners |-> {1}, names |-> {<<"a", "#">>}, counting |-> TRUE,
     sizes |-> {s \in 0..(MAX_FILE_SIZE + 1) : s <= MaxDenseSize \/ s \in BoundarySizes}]

\* MaxHandlers transfers of small files, running concurrently
ConcCfg ==
    [procs |-> Procs, owners |-> Owners, names |-> {<<"a", "#">>}, counting |-> FALSE,
     sizes |-> {CHUNK_STRATEGIES["tiny"], 2 * CHUNK_STRATEGIES["tiny"], MAX_FILE_SIZE + 1}]

InitWith(c) ==
    /\ cfg = c
    /\ active_uploads = [u \in Owners |-> ""]
    /\ user_stats = [u \in Owners |-> [uploads |-> 0, total_size |-> 0]]
    /\ success_rate = [k \in {} |-> 0]
    /\ tmp = [x \in {} |-> NoFile]
    /\ remote = [x \in {} |-> NoFile]
    /\ now = 0
    /\ running = 0
    /\ h = [p \in Procs |-> Idle]

Init == InitWith(SoloCfg)

InitConc == InitWith(ConcCfg)

\* one transfer, running alone, its upload calls not counted
LiveCfg == [SoloCfg EXCEPT !.counting = FALSE]

InitLive == InitWith(LiveCfg)

-----------------------------------------------------------------------------
(* Steps *)

\* the positions at which a handler runs synchronous code; at every other one
\* it is suspended at an await, not started, or has returned
SyncPcs ==
    {"uts_enter", "direct_upload", "split_enter", "split_read", "part_upload",
     "manifest", "finally"}

\* the upload calls of a transfer are counted (for the properties to read)
\* where cfg asks for it
Counted(r) ==
    IF cfg.counting THEN r
    ELSE [r EXCEPT !.direct_calls = 0, !.quota_hit = FALSE, !.unit_calls = 0,
                   !.run_total = 0, !.run_part_calls = 0, !.run_manifest_calls = 0,
                   !.last_ord = 0]

\* handler p moves on as r; it keeps the event loop until it awaits
Set(p, r) ==
    /\ h' = [h EXCEPT ![p] = Counted(r)]
    /\ running' = IF r.pc \in SyncPcs THEN p ELSE 0

\* suspended at an await, and the event loop is free to resume it
AtAwait(p, label) == running = 0 /\ h[p].pc = label

\* running synchronous code
AtStep(p, label) == running = p /\ h[p].pc = label

\* upload_to_space and split_and_upload have returned or raised: their locals
\* are gone
Unwind(r) ==
    [r EXCEPT !.uts_file_size = 0, !.attempts = <<>>, !.att = 0, !.retry = 0,
              !.caller = "", !.sp_base = "", !.sp_chunk = 0, !.sp_total = 0,
              !.sp_file_size = 0, !.f_data = <<>>, !.f_pos = 0, !.part_num = 0,
              !.chunk_data = <<>>, !.uploaded_parts = <<>>, !.sp_retry = 0]

\* an exception reaches file_handler's except clause (lines 541-548): the
\* error message is sent with status_msg.edit or event.reply, awaited
Raise(r) == [Unwind(r) EXCEPT !.pc = "await_error_msg", !.msg = "error"]

\* the clock advances (seen by the handlers when one of them is resumed)
Tick ==
    /\ running = 0
    /\ now < MaxClock
    /\ now' = now + 1
    /\ UNCHANGED <<active_uploads, user_stats, success_rate, tmp, remote, running, h, cfg>>

\* a slip: an object of exactly MAX_FILE_SIZE is refused too
TooLargeOrEqual(file_size) == file_size >= MAX_FILE_SIZE

\* line 435: if file_size > MAX_FILE_SIZE
TooLarge(file_size) == file_size > MAX_FILE_SIZE

\* file_handler, lines 422-457: a file message arrives
Receive(p, u, chars, size) ==
    /\ AtAwait(p, "idle")
    /\ p \in cfg.procs
    /\ \A q \in cfg.procs : q < p => h[q].pc # "idle"
    /\ LET original_filename == OriginalFilename(chars, now)
           upload_id == UploadId(u, now)
           r == [h[p] EXCEPT !.user_id = u, !.name = chars,
                            !.original_filename = original_filename,
                            !.file_size = size]
       IN  IF TooLarge(size)
           THEN /\ Set(p, [r EXCEPT !.pc = "await_toolarge_reply", !.msg = "too_large"])
                /\ UNCHANGED active_uploads
           ELSE /\ Set(p, [r EXCEPT !.pc = "await_start_reply", !.upload_id = upload_id])
                /\ active_uploads' = [active_uploads EXCEPT ![u] = upload_id]
    /\ UNCHANGED <<user_stats, success_rate, tmp, remote, now, cfg>>

\* lines 436-443: the "File too large" reply returns or raises; the handler ends
TooLargeReply(p) ==
    /\ AtAwait(p, "await_toolarge_reply")
    /\ Set(p, [h[p] EXCEPT !.pc = "returned"])
    /\ UNCHANGED <<active_uploads, user_stats, success_rate, tmp, remote, now, cfg>>

\* lines 452-461: the "Downloading" reply returns (ok) or raises
StartReply(p, ok) ==
    /\ AtAwait(p, "await_start_reply")
    /\ IF ok
       THEN Set(p, [h[p] EXCEPT !.pc = "await_download", !.status_msg = TRUE,
                                !.has_temp = TRUE,
                                !.temp_path = TempPath(h[p].upload_id, h[p].original_filename)])
       ELSE Set(p, Raise(h[p]))
    /\ UNCHANGED <<active_uploads, user_stats, success_rate, tmp, remote, now, cfg>>

DownloadOutcomes == {"ok", "short", "none", "raise", "raise_partial"}

\* what event.download_media leaves at temp_path
Downloaded(p, outcome) ==
    LET r == h[p]
        whole == Content(p, r.file_size)
    IN  CASE outcome = "ok" -> Put(tmp, r.temp_path, Bytes(whole))
          [] outcome \in {"short", "raise_partial"} ->
                Put(tmp, r.temp_path, Bytes(SubSeq(whole, 1, r.file_size - 1)))
          [] OTHER -> tmp

\* a slip: the size of the downloaded file is not compared
IncompleteIfMissing(fs, temp_path, file_size) == ~Exists(fs, temp_path)

\* line 464: not os.path.exists(temp_path) or os.path.getsize(temp_path) != file_size
Incomplete(fs, temp_path, file_size) ==
    ~Exists(fs, temp_path) \/ GetSize(fs, temp_path) # file_size

\* lines 461-477: download_media returns or raises, the size check, the strategy
Download(p, outcome) ==
    /\ AtAwait(p, "await_download")
    /\ outcome \in {"short", "raise_partial"} => h[p].file_size > 0
    /\ LET r == h[p]
           fs == Downloaded(p, outcome)
           strategy == get_chunk_strategy(r.file_size)
           chunk_size == CHUNK_STRATEGIES[strategy]
       IN  /\ tmp' = fs
           /\ IF \/ outcome \in {"raise", "raise_partial"}
                 \/ Incomplete(fs, r.temp_path, r.file_size)
              THEN Set(p, Raise([r EXCEPT !.dl_failed = (outcome # "ok")]))
              ELSE Set(p, [r EXCEPT !.dl_failed = (outcome # "ok"), !.pc = "await_prepare_edit", !.strategy = strategy,
                                    !.chunk_size = chunk_size,
                                    !.needs_split = (r.file_size > chunk_size)])
    /\ UNCHANGED <<active_uploads, user_stats, success_rate, remote, now, cfg>>

\* file_handler gets its result (line 496): the "Upload complete" or the
\* "Upload failed" message is sent with status_msg.edit, awaited
FhResult(r, success) ==
    IF success
    THEN [Unwind(r) EXCEPT !.pc = "await_success_edit", !.msg = "success",
                           !.quota_hit = FALSE, !.unit_calls = 0]
    ELSE [Unwind(r) EXCEPT !.pc = "await_failed_edit", !.msg = "failed",
                           !.quota_hit = FALSE, !.unit_calls = 0]

\* upload_to_space, line 146: the for loop moves to the attempt after r.att,
\* or falls out of the loop to `return False` (line 201)
NextAttempt(r) ==
    IF r.att < Len(r.attempts)
    THEN [r EXCEPT !.pc = "await_trying_edit", !.att = r.att + 1, !.retry = 0,
                   !.quota_hit = FALSE, !.unit_calls = 0,
                   !.caller = "", !.sp_base = "", !.sp_chunk = 0, !.sp_total = 0,
                   !.sp_file_size = 0, !.f_data = <<>>, !.f_pos = 0, !.part_num = 0,
                   !.chunk_data = <<>>, !.uploaded_parts = <<>>, !.sp_retry = 0]
    ELSE FhResult(r, FALSE)

\* split_and_upload returns to its caller: file_handler (line 487) or
\* upload_to_space (lines 195-199)
SplitReturn(r, success) ==
    LET r1 == [r EXCEPT !.split_ok = success,
                        !.prev_end = IF success THEN r.prev_end
                                     ELSE r.f_pos - Len(r.chunk_data)]
    IN  IF r.caller = "fh" \/ success THEN FhResult(r1, success)
        ELSE NextAttempt(r1)

\* lines 472-494: the "Preparing upload" edit returns (ok) or raises; the base
\* name is made and split_and_upload or upload_to_space is called
PrepareEdit(p, ok) ==
    /\ AtAwait(p, "await_prepare_edit")
    /\ LET r == h[p]
           base_name == BaseName(now, SafeNameOf(r.name, r.original_filename))
       IN  IF ~ok
           THEN Set(p, Raise(r))
           ELSE IF r.needs_split
                THEN Set(p, [r EXCEPT !.pc = "split_enter", !.base_name = base_name,
                                         !.total_parts = CeilDiv(r.file_size, r.chunk_size),
                                         !.caller = "fh", !.sp_base = base_name,
                                         !.sp_chunk = r.chunk_size,
                                         !.sp_total = CeilDiv(r.file_size, r.chunk_size)])
                ELSE Set(p, [r EXCEPT !.pc = "uts_enter", !.base_name = base_name,
                                         !.target_name = TargetName(base_name, r.original_filename)])
    /\ UNCHANGED <<active_uploads, user_stats, success_rate, tmp, remote, now, cfg>>

\* upload_to_space, lines 136-155: the size of the file, the attempts list, the
\* first attempt's "Trying" edit
UtsEnter(p) ==
    /\ AtStep(p, "uts_enter")
    /\ LET r == h[p]
       IN  IF ~Exists(tmp, r.temp_path)
           THEN Set(p, Raise(r))
           ELSE Set(p, [r EXCEPT !.pc = "await_trying_edit",
                                 !.uts_file_size = GetSize(tmp, r.temp_path),
                                 !.attempts = Attempts(get_chunk_strategy(r.file_size)),
                                 !.att = 1])
    /\ UNCHANGED <<active_uploads, user_stats, success_rate, tmp, remote, now, cfg>>

\* lines 150-158 and 192-197: the "Trying" edit returns (ok) or raises; the
\* attempt uploads the file whole or calls split_and_upload
TryingEdit(p, ok) ==
    /\ AtAwait(p, "await_trying_edit")
    /\ LET r == h[p]
           chunk_size == r.attempts[r.att].chunk
       IN  IF ~ok
           THEN Set(p, Raise(r))
           ELSE IF r.uts_file_size <= chunk_size
                THEN Set(p, [r EXCEPT !.pc = "direct_upload", !.retry = 0])
                ELSE Set(p, [r EXCEPT !.pc = "split_enter", !.caller = "uts",
                                         !.sp_base = r.target_name,
                                         !.sp_chunk = chunk_size,
                                         !.sp_total = CeilDiv(r.uts_file_size, chunk_size)])
    /\ UNCHANGED <<active_uploads, user_stats, success_rate, tmp, remote, now, cfg>>

\* bot_status["success_rate"][size_key] = ....get(size_key, 0) + 1
CountSuccess(rate, size_key) ==
    [k \in DOMAIN rate \cup {size_key} |->
        IF k = size_key THEN (IF k \in DOMAIN rate THEN rate[k] ELSE 0) + 1
        ELSE rate[k]]

\* a slip: one retry more than attempt['retries']
AfterDirectFailureOneMore(r, error_msg) ==
    IF IsSpaceLimit(error_msg) THEN NextAttempt(r)
    ELSE IF r.retry < r.attempts[r.att].retries
         THEN [r EXCEPT !.pc = "await_direct_sleep"]
         ELSE NextAttempt(r)

\* where the direct loop goes after a failed upload (lines 178-190)
AfterDirectFailure(r, error_msg) ==
    IF IsSpaceLimit(error_msg) THEN NextAttempt(r)
    ELSE IF r.retry < r.attempts[r.att].retries - 1
         THEN [r EXCEPT !.pc = "await_direct_sleep"]
         ELSE NextAttempt(r)

\* lines 159-190: one upload of the whole file; a missing file makes
\* upload_file raise
DirectUpload(p, outcome) ==
    /\ AtStep(p, "direct_upload")
    /\ ~Exists(tmp, h[p].temp_path) => outcome # <<"ok">> /\ ~IsSpaceLimit(outcome)
    /\ LET r == [h[p] EXCEPT !.tried = @ \cup {h[p].attempts[h[p].att].chunk},
                            !.direct_calls = @ + 1, !.unit_calls = @ + 1]
       IN  IF outcome = <<"ok">>
           THEN /\ remote' = Put(remote, r.target_name, tmp[r.temp_path])
                /\ success_rate' = CountSuccess(success_rate, SizeKey(r.file_size))
                /\ Set(p, FhResult(r, TRUE))
           ELSE /\ Set(p, AfterDirectFailure([r EXCEPT !.quota_hit = IsSpaceLimit(outcome)],
                                              outcome))
                /\ UNCHANGED <<remote, success_rate>>
    /\ UNCHANGED <<active_uploads, user_stats, tmp, now, cfg>>

\* line 188: asyncio.sleep returns and the next retry starts
DirectSleep(p) ==
    /\ AtAwait(p, "await_direct_sleep")
    /\ Set(p, [h[p] EXCEPT !.pc = "direct_upload", !.retry = @ + 1, !.quota_hit = FALSE])
    /\ UNCHANGED <<active_uploads, user_stats, success_rate, tmp, remote, now, cfg>>

\* split_and_upload, lines 205-208: the size of the file, the file is opened
SplitEnter(p) ==
    /\ AtStep(p, "split_enter")
    /\ LET r == h[p]
       IN  IF ~Exists(tmp, r.temp_path)
           THEN Set(p, Raise(r))
           ELSE /\ Set(p, [r EXCEPT !.pc = "split_read", !.uploaded_parts = <<>>,
                                    !.sp_file_size = GetSize(tmp, r.temp_path),
                                    !.f_data = tmp[r.temp_path].data, !.f_pos = 0,
                                    !.part_num = 1, !.chunk_data = <<>>,
                                    !.tried = @ \cup {r.sp_chunk},
                                    !.split_ok = FALSE, !.gave_up = FALSE,
                                    !.manifest_done = FALSE, !.retried = FALSE,
                                    !.runs = @ + 1, !.unit_calls = 0,
                                    !.run_total = r.sp_total, !.run_part_calls = 0,
                                    !.run_manifest_calls = 0])
    /\ UNCHANGED <<active_uploads, user_stats, success_rate, tmp, remote, now, cfg>>

\* a slip: the ordinal recorded is zero-based
PartEntryZeroBased(chunk_name, chunk_data, part_num) ==
    [name |-> chunk_name, size |-> Len(chunk_data), part |-> part_num - 1]

\* an entry of uploaded_parts (lines 239-243)
PartEntry(chunk_name, chunk_data, part_num) ==
    [name |-> chunk_name, size |-> Len(chunk_data), part |-> part_num]

\* lines 209-227: the next part is read and written to its chunk file, and the
\* "Uploading part" edit is sent; the loop ends after total_parts parts or at
\* an empty read
SplitRead(p) ==
    /\ AtStep(p, "split_read")
    /\ LET r == h[p]
           chunk_data == ReadChunk(r.f_data, r.f_pos, r.sp_chunk)
       IN  IF r.part_num > r.sp_total \/ chunk_data = <<>>
           THEN /\ Set(p, [r EXCEPT !.pc = "manifest", !.chunk_data = <<>>])
                /\ UNCHANGED tmp
           ELSE /\ tmp' = Put(tmp, ChunkPath(r.sp_base, r.part_num), Bytes(chunk_data))
                /\ Set(p, [r EXCEPT !.pc = "await_part_edit", !.chunk_data = chunk_data,
                                    !.f_pos = @ + Len(chunk_data), !.unit_calls = 0])
    /\ UNCHANGED <<active_uploads, user_stats, success_rate, remote, now, cfg>>

\* lines 221-230: the "Uploading part" edit returns (ok) or raises
PartEdit(p, ok) ==
    /\ AtAwait(p, "await_part_edit")
    /\ IF ok
       THEN Set(p, [h[p] EXCEPT !.pc = "part_upload", !.sp_retry = 0])
       ELSE Set(p, Raise(h[p]))
    /\ UNCHANGED <<active_uploads, user_stats, success_rate, tmp, remote, now, cfg>>

\* a slip: at the third failure the loop goes on to the next part (a `break`
\* out of the retry loop where `return False` was meant)
AfterPartFailureSkip(r) ==
    IF r.sp_retry = 2 THEN [r EXCEPT !.pc = "split_read", !.part_num = @ + 1]
    ELSE [r EXCEPT !.pc = "await_part_sleep"]

\* lines 250-255: after a failed upload of a part, give up at the third
\* failure, sleep and retry before
AfterPartFailure(r) ==
    IF r.sp_retry = 2 THEN SplitReturn([r EXCEPT !.gave_up = TRUE], FALSE)
    ELSE [r EXCEPT !.pc = "await_part_sleep"]

\* the ordinal the loop of line 209 gives the part after part_num
NextPartNum(part_num) == part_num + 1

\* lines 230-255: one upload of the current part; a missing chunk file makes
\* upload_file raise
PartUpload(p, outcome) ==
    /\ AtStep(p, "part_upload")
    /\ LET r == [h[p] EXCEPT !.unit_calls = @ + 1, !.run_part_calls = @ + 1]
           chunk_path == ChunkPath(r.sp_base, r.part_num)
           chunk_name == ChunkName(r.sp_base, r.part_num)
       IN  /\ ~Exists(tmp, chunk_path) => outcome # <<"ok">>
           /\ IF outcome = <<"ok">>
              THEN /\ remote' = Put(remote, chunk_name, tmp[chunk_path])
                   /\ tmp' = Remove(tmp, chunk_path)
                   /\ Set(p, [r EXCEPT !.pc = "split_read",
                                       !.uploaded_parts =
                                           Append(@, PartEntry(chunk_name, r.chunk_data, r.part_num)),
                                       !.part_num = NextPartNum(r.part_num),
                                       !.last_ord = r.part_num])
              ELSE /\ Set(p, AfterPartFailure([r EXCEPT !.quota_hit = IsSpaceLimit(outcome)]))
                   /\ UNCHANGED <<tmp, remote>>
    /\ UNCHANGED <<active_uploads, user_stats, success_rate, now, cfg>>

\* a slip: the retry does not advance the loop variable
PartSleepSameRetry(p) ==
    /\ AtAwait(p, "await_part_sleep")
    /\ Set(p, [h[p] EXCEPT !.pc = "part_upload", !.retried = TRUE, !.quota_hit = FALSE])
    /\ UNCHANGED <<active_uploads, user_stats, success_rate, tmp, remote, now, cfg>>

\* line 255: asyncio.sleep returns and the next retry starts
PartSleep(p) ==
    /\ AtAwait(p, "await_part_sleep")
    /\ Set(p, [h[p] EXCEPT !.pc = "part_upload", !.sp_retry = @ + 1, !.retried = TRUE,
                            !.quota_hit = FALSE])
    /\ UNCHANGED <<active_uploads, user_stats, success_rate, tmp, remote, now, cfg>>

\* the manifest of lines 258-267
BuildManifest(r, fs, ts) ==
    [original_name |-> r.sp_base,
     total_parts |-> r.sp_total,
     total_size |-> r.sp_file_size,
     chunk_size |-> r.sp_chunk,
     parts |-> r.uploaded_parts,
     timestamp |-> ts,
     md5 |-> IF Exists(fs, r.temp_path) THEN calculate_md5(fs[r.temp_path].data)
             ELSE <<"None">>]

\* lines 257-285: the manifest is built, written and uploaded; a failed upload
\* is swallowed and leaves the manifest file; split_and_upload returns True
Manifest(p, ok) ==
    /\ AtStep(p, "manifest")
    /\ LET r == h[p]
           file == ManifestFile(BuildManifest(r, tmp, now))
       IN  /\ IF ok
              THEN /\ remote' = Put(remote, ManifestName(r.sp_base), file)
                   /\ tmp' = Remove(Put(tmp, ManifestPath(r.sp_base), file),
                                    ManifestPath(r.sp_base))
              ELSE /\ tmp' = Put(tmp, ManifestPath(r.sp_base), file)
                   /\ UNCHANGED remote
           /\ Set(p, SplitReturn([r EXCEPT !.manifest_done = TRUE,
                                            !.run_manifest_calls = @ + 1], TRUE))
    /\ UNCHANGED <<active_uploads, user_stats, success_rate, now, cfg>>

\* lines 525-528
CountUpload(stats, user_id, file_size) ==
    [stats EXCEPT ![user_id] = [uploads |-> @.uploads + 1,
                                total_size |-> @.total_size + file_size]]

\* lines 522-528: the "Upload complete" edit returns (ok) or raises
SuccessEdit(p, ok) ==
    /\ AtAwait(p, "await_success_edit")
    /\ IF ok
       THEN /\ user_stats' = CountUpload(user_stats, h[p].user_id, h[p].file_size)
            /\ Set(p, [h[p] EXCEPT !.pc = "finally"])
       ELSE /\ Set(p, Raise(h[p]))
            /\ UNCHANGED user_stats
    /\ UNCHANGED <<active_uploads, success_rate, tmp, remote, now, cfg>>

\* lines 531-539: the "Upload failed" edit returns (ok) or raises
FailedEdit(p, ok) ==
    /\ AtAwait(p, "await_failed_edit")
    /\ IF ok
       THEN Set(p, [h[p] EXCEPT !.pc = "finally"])
       ELSE Set(p, Raise(h[p]))
    /\ UNCHANGED <<active_uploads, user_stats, success_rate, tmp, remote, now, cfg>>

\* lines 544-550: the "Error" edit or reply returns or raises; either way the
\* finally clause is next
ErrorMsg(p) ==
    /\ AtAwait(p, "await_error_msg")
    /\ Set(p, [h[p] EXCEPT !.pc = "finally"])
    /\ UNCHANGED <<active_uploads, user_stats, success_rate, tmp, remote, now, cfg>>

\* lines 554-555: the registry entry is deleted if it is this transfer's
Deregister(registry, user_id, upload_id) ==
    IF registry[user_id] # "" /\ registry[user_id] = upload_id
    THEN [registry EXCEPT ![user_id] = ""]
    ELSE registry

\* lines 557-561: the downloaded file is removed if temp_path was assigned and
\* the file exists
RemoveTemp(fs, has_temp, temp_path) ==
    IF has_temp /\ Exists(fs, temp_path) THEN Remove(fs, temp_path) ELSE fs

\* lines 552-561: the finally clause; file_handler returns
Finally(p) ==
    /\ AtStep(p, "finally")
    /\ active_uploads' = Deregister(active_uploads, h[p].user_id, h[p].upload_id)
    /\ tmp' = RemoveTemp(tmp, h[p].has_temp, h[p].temp_path)
    /\ Set(p, [h[p] EXCEPT !.pc = "returned", !.tried = {}, !.prev_end = 0,
                            !.split_ok = FALSE, !.gave_up = FALSE,
                            !.manifest_done = FALSE, !.retried = FALSE, !.runs = 0,
                            !.direct_calls = 0, !.quota_hit = FALSE, !.unit_calls = 0,
                            !.run_total = 0, !.run_part_calls = 0,
                            !.run_manifest_calls = 0, !.last_ord = 0])
    /\ UNCHANGED <<user_stats, success_rate, remote, now, cfg>>

\* the senders of the p-th message: owners are told apart only by being equal
\* or not, so the first message is owner 1's, the second owner 1's or 2's, ...
SendersOf(p) == {u \in cfg.owners : u <= p}

Next ==
    \/ Tick
    \/ \E p \in Procs : \E u \in SendersOf(p), chars \in cfg.names, size \in cfg.sizes :
          Receive(p, u, chars, size)
    \/ \E p \in Procs : TooLargeReply(p)
    \/ \E p \in Procs, ok \in BOOLEAN : StartReply(p, ok)
    \/ \E p \in Procs, outcome \in DownloadOutcomes : Download(p, outcome)
    \/ \E p \in Procs, ok \in BOOLEAN : PrepareEdit(p, ok)
    \/ \E p \in Procs : UtsEnter(p)
    \/ \E p \in Procs, ok \in BOOLEAN : TryingEdit(p, ok)
    \/ \E p \in Procs, outcome \in UploadOutcomes : DirectUpload(p, outcome)
    \/ \E p \in Procs : DirectSleep(p)
    \/ \E p \in Procs : SplitEnter(p)
    \/ \E p \in Procs : SplitRead(p)
    \/ \E p \in Procs, ok \in BOOLEAN : PartEdit(p, ok)
    \/ \E p \in Procs, outcome \in UploadOutcomes : PartUpload(p, outcome)
    \/ \E p \in Procs : PartSleep(p)
    \/ \E p \in Procs, ok \in BOOLEAN : Manifest(p, ok)
    \/ \E p \in Procs, ok \in BOOLEAN : SuccessEdit(p, ok)
    \/ \E p \in Procs, ok \in BOOLEAN : FailedEdit(p, ok)
    \/ \E p \in Procs : ErrorMsg(p)
    \/ \E p \in Procs : Finally(p)

\* one transfer, running alone
Spec == Init /\ [][Next]_vars

\* concurrent transfers
SpecConc == InitConc /\ [][Next]_vars

\* what handler p does once its message has arrived: each step is an external
\* call returning or raising, or synchronous code running on
Step(p) ==
    \/ TooLargeReply(p)
    \/ \E ok \in BOOLEAN : StartReply(p, ok)
    \/ \E outcome \in DownloadOutcomes : Download(p, outcome)
    \/ \E ok \in BOOLEAN : PrepareEdit(p, ok)
    \/ UtsEnter(p)
    \/ \E ok \in BOOLEAN : TryingEdit(p, ok)
    \/ \E outcome \in UploadOutcomes : DirectUpload(p, outcome)
    \/ DirectSleep(p)
    \/ SplitEnter(p)
    \/ SplitRead(p)
    \/ \E ok \in BOOLEAN : PartEdit(p, ok)
    \/ \E outcome \in UploadOutcomes : PartUpload(p, outcome)
    \/ PartSleep(p)
    \/ \E ok \in BOOLEAN : Manifest(p, ok)
    \/ \E ok \in BOOLEAN : SuccessEdit(p, ok)
    \/ \E ok \in BOOLEAN : FailedEdit(p, ok)
    \/ ErrorMsg(p)
    \/ Finally(p)

\* one transfer, running alone; every external call (reply, edit, download,
\* upload, sleep) eventually returns or raises and the event loop resumes
\* the handler
SpecLive == InitLive /\ [][Next]_vars /\ \A p \in Procs : WF_vars(Step(p))

-----------------------------------------------------------------------------
(* What the properties read *)

\* registered in active_uploads and not yet through the finally clause
InFlight(p) == h[p].pc \notin {"idle", "await_toolarge_reply", "returned"}

\* the base name split_and_upload is given for handler record r
SplitBase(r) == IF r.needs_split THEN r.base_name ELSE r.target_name

\* the positions inside the part loop of split_and_upload
PartLoopPcs == {"split_read", "await_part_edit", "part_upload", "await_part_sleep"}

\* the local files a transfer creates
FilesOf(r) ==
    (IF r.has_temp THEN {r.temp_path} ELSE {})
    \cup UNION { {ChunkPath(b, i) : i \in 1..MAX_FILE_SIZE} \cup {ManifestPath(b)} :
                   b \in {r.base_name, r.target_name} \ {""} }

\* cat base.part001 base.part002 ... of the files of a file system
RECURSIVE Cat(_, _, _)
Cat(fs, base, i) ==
    IF Exists(fs, ChunkName(base, i))
    THEN fs[ChunkName(base, i)].data \o Cat(fs, base, i + 1)
    ELSE <<>>

Manifests(fs) == {fs[x].manifest[1] : x \in {y \in DOMAIN fs : fs[y].kind = "manifest"}}

RECURSIVE SumSizes(_)
SumSizes(parts) == IF parts = <<>> THEN 0 ELSE Head(parts).size + SumSizes(Tail(parts))

-----------------------------------------------------------------------------
(* Claims *)

\* C1: at most one transfer per owner is in flight: while a transfer of an
\* owner is registered, no second handler of that owner gets past the busy
\* check.
C1_OneTransferPerOwner ==
    \A p, q \in Procs :
        p # q /\ InFlight(p) /\ InFlight(q) => h[p].user_id # h[q].user_id

\* C2: when a transfer that registered its owner returns, active_uploads holds
\* no entry for that owner.
C2_EntryGoneAtReturn ==
    [][\A p \in Procs :
          h[p].pc = "finally" /\ h'[p].pc = "returned"
              => active_uploads'[h[p].user_id] = ""]_vars

\* C3: after a transfer has ended, none of its local files remains: not the
\* downloaded file, not a chunk file, not the manifest file.
C3_NoLocalFilesLeft ==
    \A p \in Procs : h[p].pc = "returned" => FilesOf(h[p]) \cap DOMAIN tmp = {}

\* C4: when split_and_upload has returned True, the uploaded parts part001,
\* part002, ... concatenated in that order are the bytes of the object.
C4_RoundTrip ==
    \A p \in Procs :
        h[p].split_ok => Cat(remote, SplitBase(h[p]), 1) = Content(p, h[p].file_size)

C4_Witness ==
    \E p \in Procs :
        /\ h[p].split_ok
        /\ h[p].needs_split
        /\ h[p].file_size = 10 * h[p].chunk_size

\* C5: the ordinals of a manifest are 1..N in order, N the least number of
\* chunks of chunk_size that hold total_size bytes; while a part is uploaded
\* or retried its ordinal is one more than the number of parts uploaded.
C5_Ordinals ==
    /\ \A p \in Procs :
          /\ \A i \in 1..Len(h[p].uploaded_parts) : h[p].uploaded_parts[i].part = i
          /\ h[p].pc \in {"await_part_edit", "part_upload", "await_part_sleep"}
                => h[p].part_num = Len(h[p].uploaded_parts) + 1
    /\ \A m \in Manifests(tmp) \cup Manifests(remote) :
          /\ \A i \in 1..Len(m.parts) : m.parts[i].part = i
          /\ Len(m.parts) * m.chunk_size >= m.total_size
          /\ (Len(m.parts) - 1) * m.chunk_size < m.total_size

C5_Witness ==
    \E p \in Procs :
        /\ h[p].split_ok
        /\ h[p].retried
        /\ \E m \in Manifests(remote) : Len(m.parts) >= 3

\* C6: in every uploaded manifest the sizes of the parts sum to total_size and
\* the parts list has total_parts entries.
C6_ManifestTotals ==
    \A m \in Manifests(remote) :
        /\ SumSizes(m.parts) = m.total_size
        /\ Len(m.parts) = m.total_parts

C6_Witness ==
    \E m \in Manifests(remote) :
        /\ m.total_parts >= 2
        /\ m.parts[Len(m.parts)].size < m.chunk_size

\* C7: the manifest is made only when each of the total_parts parts of the run
\* is uploaded; a run that gave a part up makes no manifest; after the
\* manifest no part of that run is uploaded.
C7_ManifestLast ==
    \A p \in Procs :
        /\ h[p].pc = "manifest" =>
              /\ Len(h[p].uploaded_parts) = h[p].sp_total
              /\ \A i \in 1..h[p].sp_total : Exists(remote, ChunkName(h[p].sp_base, i))
        /\ h[p].gave_up =>
              /\ ~h[p].manifest_done
              /\ ~Exists(remote, ManifestName(SplitBase(h[p])))
              /\ ~Exists(tmp, ManifestPath(SplitBase(h[p])))
        /\ h[p].manifest_done => h[p].pc \notin PartLoopPcs \cup {"manifest"}

C7_Witness ==
    \E p \in Procs :
        /\ h[p].manifest_done
        /\ h[p].retried
        /\ Exists(remote, ManifestName(SplitBase(h[p])))

\* C8: each entry of upload_to_space's attempts list has a strictly smaller
\* chunk size than the entry before it.
C8_LadderDescends ==
    \A p \in Procs :
        \A i \in 1..(Len(h[p].attempts) - 1) :
            h[p].attempts[i + 1].chunk < h[p].attempts[i].chunk

\* C9: a strategy that follows one abandoned after some parts were uploaded
\* starts chunking at the end offset of the last uploaded part.
C9_ResumesAtRemainder ==
    \A p \in Procs :
        h[p].pc = "await_part_edit" /\ h[p].part_num = 1 /\ h[p].prev_end > 0
            => h[p].f_pos - Len(h[p].chunk_data) = h[p].prev_end

\* C10: the "Upload failed" message is sent only after the tiny strategy has
\* been tried too.
C10_FailedAfterLadder ==
    \A p \in Procs :
        h[p].pc = "await_failed_edit" => CHUNK_STRATEGIES["tiny"] \in h[p].tried

\* C11: an object larger than MAX_FILE_SIZE is refused before anything is
\* done: no registry entry, no upload id, no temp path, no local file, no
\* upload; an object of exactly MAX_FILE_SIZE or less is accepted and
\* registered.
C11_CeilingRejects ==
    \A p \in Procs :
        /\ h[p].file_size > MAX_FILE_SIZE =>
              /\ h[p].pc \in {"await_toolarge_reply", "returned"}
              /\ h[p].msg = "too_large"
              /\ h[p].upload_id = "" /\ ~h[p].has_temp
              /\ active_uploads[h[p].user_id] = ""
              /\ DOMAIN tmp = {} /\ DOMAIN remote = {}
        /\ h[p].pc # "idle" /\ h[p].file_size <= MAX_FILE_SIZE =>
              /\ h[p].msg # "too_large"
              /\ h[p].upload_id # ""
              /\ h[p].pc = "await_start_reply" =>
                    active_uploads[h[p].user_id] = h[p].upload_id

C11_Witness ==
    \E p \in Procs :
        /\ h[p].file_size = MAX_FILE_SIZE + 1
        /\ h[p].pc = "returned"

\* C12: a transfer whose download failed (download_media raised, or left no
\* file or a file of another size) makes no upload call, ends with the error
\* message, and has returned with its registry entry and its temp file gone.
C12_DownloadFailureIsFatal ==
    \A p \in Procs :
        h[p].dl_failed =>
            /\ h[p].pc \in {"await_error_msg", "finally", "returned"}
            /\ h[p].msg = "error"
            /\ h[p].direct_calls = 0 /\ h[p].runs = 0
            /\ DOMAIN remote = {}
            /\ h[p].pc = "returned" =>
                  /\ active_uploads[h[p].user_id] = ""
                  /\ ~Exists(tmp, h[p].temp_path)

C12_Witness ==
    \E p \in Procs :
        /\ h[p].dl_failed
        /\ h[p].pc = "returned"
        /\ h[p].file_size > CHUNK_STRATEGIES["tiny"]

\* the positions at which a progress notification (status_msg.edit) of the
\* strategy announcement or of a part upload is awaited
ProgressEditPcs == {"await_prepare_edit", "await_trying_edit", "await_part_edit"}

\* C13: a progress notification that raises does not end the transfer: no
\* step takes a handler from an awaited progress edit to the error message.
C13_NotificationNotFatal ==
    [][\A p \in Procs :
          h[p].pc \in ProgressEditPcs => h'[p].pc # "await_error_msg"]_vars

\* C14: while the "Upload failed" or the "Error" message is being sent, the
\* owner is no longer registered and the downloaded file no longer exists.
C14_CleanupBeforeReport ==
    \A p \in Procs :
        h[p].pc \in {"await_failed_edit", "await_error_msg"} =>
            /\ active_uploads[h[p].user_id] = ""
            /\ h[p].has_temp => ~Exists(tmp, h[p].temp_path)

\* the size of `size` blocks in MiB
MiB(size) == size * (Block \div (1024 * 1024))

\* the strategy the selector is to return for a size
SelectedFor(size) ==
    IF MiB(size) <= 100 THEN "tiny"
    ELSE IF MiB(size) <= 500 THEN "balanced"
    ELSE "safe"

\* the positions before get_chunk_strategy is called (line 468), and those of
\* a transfer that ended before the call
BeforeStrategyPcs == {"idle", "await_toolarge_reply", "await_start_reply", "await_download"}

\* C15: get_chunk_strategy returns a strategy for every size from 0 on: tiny
\* up to 100 MiB (size 0 and 100 MiB itself included), balanced above that up
\* to 500 MiB (itself included), safe above; the transfer uses that strategy's
\* chunk size.
C15_StrategySelection ==
    \A p \in Procs :
        h[p].pc \notin BeforeStrategyPcs /\ h[p].msg \notin {"too_large", "error"} =>
            /\ h[p].strategy \in DOMAIN CHUNK_STRATEGIES
            /\ h[p].strategy = SelectedFor(h[p].file_size)
            /\ h[p].chunk_size = CHUNK_STRATEGIES[SelectedFor(h[p].file_size)]

C15_Witness ==
    \E p \in Procs :
        /\ h[p].file_size = StrategyTable[2][1]
        /\ h[p].strategy = "balanced"
        /\ h[p].pc = "await_prepare_edit"

\* C16: an upload rejected for the Space's limits ("403", "LFS", "quota") is
\* not sent again under the same chunk size: neither the direct loop nor the
\* part loop sleeps for a retry after such a rejection.
C16_QuotaNotRetried ==
    \A p \in Procs :
        h[p].pc \in {"await_direct_sleep", "await_part_sleep"} => ~h[p].quota_hit

\* C17: under one strategy the same part, or the whole object, is sent at most
\* 3 times; a transfer makes at most 2 + 3 + 3 uploads of the whole object; a
\* run of split_and_upload makes at most 3 * total_parts part uploads and one
\* manifest upload.
C17_AttemptsBounded ==
    \A p \in Procs :
        /\ h[p].unit_calls <= 3
        /\ h[p].direct_calls <= 2 + 3 + 3
        /\ h[p].run_part_calls <= 3 * h[p].run_total
        /\ h[p].run_manifest_calls <= 1

C17_Witness ==
    \E p \in Procs :
        /\ h[p].direct_calls = 2 + 3 + 3
        /\ h[p].pc = "await_failed_edit"

\* C18: over all the part uploads of a transfer that succeed, those of a run
\* after a fallback included, the ordinal of each is greater than the ordinal
\* of the one before it.
C18_OrdinalsIncrease ==
    [][\A p \in Procs :
          Len(h'[p].uploaded_parts) > Len(h[p].uploaded_parts)
              => h'[p].last_ord > h[p].last_ord]_vars

\* the sizes of parts 1..n are right for chunks of chunk_size when n parts
\* are expected in all: chunk_size each, the last one from 1 to chunk_size
PartSizesRight(parts, chunk_size, n) ==
    \A i \in 1..Len(parts) :
        IF i < n THEN parts[i].size = chunk_size
        ELSE parts[i].size >= 1 /\ parts[i].size <= chunk_size

\* C19: every part of a run with chunk size C has C bytes, but the last, which
\* has from 1 to C bytes; no empty part is written or uploaded, and an object
\* of k * C bytes gives k parts.
C19_PartSizes ==
    /\ \A p \in Procs :
          /\ PartSizesRight(h[p].uploaded_parts, h[p].sp_chunk, h[p].sp_total)
          /\ h[p].pc \in {"await_part_edit", "part_upload", "await_part_sleep"} =>
                /\ Len(h[p].chunk_data) >= 1
                /\ Len(h[p].chunk_data) <= h[p].sp_chunk
                /\ h[p].part_num < h[p].sp_total => Len(h[p].chunk_data) = h[p].sp_chunk
                /\ Exists(tmp, ChunkPath(h[p].sp_base, h[p].part_num))
                /\ GetSize(tmp, ChunkPath(h[p].sp_base, h[p].part_num)) = Len(h[p].chunk_data)
    /\ \A x \in DOMAIN remote : remote[x].kind = "bytes" /\ remote[x].data = <<>> =>
          \E p \in Procs : h[p].file_size = 0 /\ x = h[p].target_name
    /\ \A m \in Manifests(remote) :
          /\ PartSizesRight(m.parts, m.chunk_size, m.total_parts)
          /\ m.total_size % m.chunk_size = 0 => Len(m.parts) = m.total_size \div m.chunk_size

C19_Witness ==
    \E m \in Manifests(remote) :
        /\ m.chunk_size > 1
        /\ m.total_size = 2 * m.chunk_size
        /\ Len(m.parts) = 2

\* the local staging paths and the remote names a transfer with a base name
\* uses: its chunk files, its manifest file, the objects it uploads
StagingPaths(r) ==
    UNION { {ChunkPath(b, i) : i \in 1..MAX_FILE_SIZE} \cup {ManifestPath(b)} :
              b \in {r.base_name, r.target_name} \ {""} }

RemoteNames(r) ==
    ({r.target_name} \ {""})
    \cup UNION { {ChunkName(b, i) : i \in 1..MAX_FILE_SIZE} \cup {ManifestName(b)} :
                    b \in {r.base_name, r.target_name} \ {""} }

\* C20: two transfers of different owners that are in flight together use no
\* local staging path and no remote name in common.
C20_OwnersIndependent ==
    \A p, q \in Procs :
        p # q /\ InFlight(p) /\ InFlight(q) /\ h[p].user_id # h[q].user_id =>
            /\ StagingPaths(h[p]) \cap StagingPaths(h[q]) = {}
            /\ RemoteNames(h[p]) \cap RemoteNames(h[q]) = {}
            /\ h[p].has_temp /\ h[q].has_temp => h[p].temp_path # h[q].temp_path

\* C21: while the "Upload complete" message of a split transfer, with its
\* manifest link, is being sent, the manifest object is in the repository.
C21_ManifestStoredOnSuccess ==
    \A p \in Procs :
        h[p].pc = "await_success_edit" /\ h[p].needs_split
            => Exists(remote, ManifestName(h[p].base_name))

\* C22: active_uploads has an entry for an owner exactly while a transfer of
\* that owner is between its registration and the end of its finally clause.
C22_RegistryIffInFlight ==
    \A u \in Owners :
        active_uploads[u] # "" <=> \E p \in Procs : InFlight(p) /\ h[p].user_id = u

\* C23: a transfer that was accepted and registered eventually returns from
\* file_handler, whatever the external calls answer, and its owner then has
\* no entry in active_uploads.
C23_Terminates ==
    \A p \in Procs :
        (h[p].pc = "await_start_reply")
            ~> (h[p].pc = "returned" /\ active_uploads[h[p].user_id] = "")

C23_Witness ==
    \E p \in Procs :
        /\ h[p].pc = "returned"
        /\ h[p].msg = "failed"
        /\ ~h[p].needs_split
        /\ active_uploads[h[p].user_id] = ""

====
